---- MODULE Spec2Model ----
(***************************************************************************)
(* Freight rate calculation: the freight-rate service (density, freight    *)
(* class, distance class, price table, 15% markup) and the calculate       *)
(* controllers in front of it (hash-estimate distance and external-routing *)
(* distance).                                                              *)
(*                                                                         *)
(* Units.  JavaScript numbers are IEEE doubles; the model holds them as    *)
(* integers in a fixed scale:                                              *)
(*   weight           grams                (item.weight * item.quantity)   *)
(*   volume           cubic millimetres    (length * width * height * qty) *)
(*   density          hundredths of lb/in3 (the value Math.round yields,   *)
(*                                          before the final / 100)        *)
(*   distance         metres               (km * 1000)                     *)
(*   price            cents                                                *)
(* Quotients of doubles are compared by exact cross multiplication; the    *)
(* one place where the binary rounding of a double decides the result,     *)
(* the product totalPrice * 1.15, is modelled bit-exactly (MulMarkup).     *)
(* Postal codes are sequences of UTF-16 code units.                        *)
(***************************************************************************)
EXTENDS Integers, Sequences, FiniteSets, TLC

VARIABLES
  variant,              \* which calculate controller is deployed
  googleKey,            \* process.env.GOOGLE_API_KEY is set
  warehouses,           \* api::warehouse.warehouse, in enumeration order
  freightClasses,       \* api::freight-classe.freight-classe
  distanceClasses,      \* api::distance-class.distance-class
  priceTable,           \* api::price-table.price-table
  pc,                   \* position of the request in flight
  entry,                \* operation the caller invoked
  req,                  \* ctx.request.body / the service call's argument
  warehousePostalCode,  \* controller local
  selectedWarehouseId,  \* controller local
  distance,             \* controller local, then input.distance
  originPath,           \* branch of the origin resolution that was taken
  warehouseLookup,      \* what findOne / findMany gave the controller
  warehouseDistances,   \* the distance computed for each candidate warehouse
  routeCalls,           \* getGoogleDistance queries sent to the provider
  routeFailures,        \* queries the provider answered with a non-success status
  settleOrder,          \* order in which the per-warehouse queries completed
  density,              \* calculateRate local
  freightClassRecord,   \* calculateRate local
  distanceClass,        \* calculateRate local
  applicableRates,      \* calculateRate local
  rateCalls,            \* invocations of calculateRate
  priceTableReads,      \* price-table find() calls
  svcResult,            \* what the service call returned or threw
  response,             \* what the controller answered
  freightRates,         \* api::freight-rate.freight-rate, the stored calculations
  elapsed,              \* ms the wait of getFreightComRates has taken
  polls,                \* GET /rate/<id> requests the interval has issued
  cmpOutcome,           \* how getFreightComRates ended
  freightApiRates,      \* what getFreightComRates returned
  historyResponse,      \* what GET /freight-rates/history answered
  peer                  \* the locals of a second calculateRate call in flight

vars == <<variant, googleKey, warehouses, freightClasses, distanceClasses,
          priceTable, pc, entry, req, warehousePostalCode, selectedWarehouseId,
          distance, originPath, warehouseLookup, warehouseDistances,
          routeCalls, routeFailures, settleOrder, density, freightClassRecord,
          distanceClass,
          applicableRates, rateCalls, priceTableReads, svcResult, response,
          freightRates, elapsed, polls, cmpOutcome, freightApiRates,
          historyResponse, peer>>

stores == <<warehouses, freightClasses, distanceClasses, priceTable, freightRates>>
config == <<variant, googleKey>>

----------------------------------------------------------------------------
(* Bounds of the model *)

MaxItems == 2

----------------------------------------------------------------------------
(* Program constants *)

\* 1 lb = 453.592 g, in thousandths of a gram
GramsPerLbMilli == 453592
\* 1 in3 = 16387.064 mm3, in thousandths of a cubic millimetre
Mm3PerIn3Milli == 16387064
\* Math.round(density * 100) / 100
DensityScale == 100
\* Math.ceil(totalWeightLbs / 100)
LbsPerUnit == 100
\* (hash % 4900) + 100
HashModulus == 4900
HashOffset == 100
\* fallback distance of getGoogleDistance without an API key, km
DefaultDistanceKm == 500
\* element.distance.value / 1000
MetresPerKm == 1000
\* findMany('api::warehouse.warehouse', { limit: 1000 })
WarehouseLimit == 1000
\* setInterval(..., 1000) and setTimeout(..., 30000) of getFreightComRates, ms
PollIntervalMs == 1000
TimeoutMs == 30000
\* history: limit: 100
HistoryLimit == 100

----------------------------------------------------------------------------
(* Natural numbers beyond 32 bits: little-endian sequences of base-10000   *)
(* limbs, used where the doubles of the source hold products that do not   *)
(* fit a machine integer.                                                  *)

RECURSIVE BigOf(_)
BigOf(n) == IF n = 0 THEN <<>> ELSE <<n % 10000>> \o BigOf(n \div 10000)

BigHead(a) == IF a = <<>> THEN 0 ELSE Head(a)
BigTail(a) == IF a = <<>> THEN <<>> ELSE Tail(a)

RECURSIVE BigAdd(_, _, _)
BigAdd(a, b, carry) ==
  IF a = <<>> /\ b = <<>>
  THEN BigOf(carry)
  ELSE LET x == BigHead(a) + BigHead(b) + carry
       IN  <<x % 10000>> \o BigAdd(BigTail(a), BigTail(b), x \div 10000)

RECURSIVE BigMulLimb(_, _, _)
BigMulLimb(a, m, carry) ==
  IF a = <<>>
  THEN BigOf(carry)
  ELSE LET x == Head(a) * m + carry
       IN  <<x % 10000>> \o BigMulLimb(Tail(a), m, x \div 10000)

RECURSIVE BigMul(_, _)
BigMul(a, b) ==
  IF b = <<>>
  THEN <<>>
  ELSE BigAdd(BigMulLimb(a, Head(b), 0), <<0>> \o BigMul(a, Tail(b)), 0)

\* -1, 0, 1 as a < b, a = b, a > b; leading zero limbs are allowed
RECURSIVE BigCmp(_, _)
BigCmp(a, b) ==
  IF a = <<>> /\ b = <<>>
  THEN 0
  ELSE LET hi == BigCmp(BigTail(a), BigTail(b))
       IN  IF hi # 0 THEN hi
           ELSE IF BigHead(a) < BigHead(b) THEN -1
           ELSE IF BigHead(a) > BigHead(b) THEN 1
           ELSE 0

BigProd3(x, y, z) == BigMul(BigMul(BigOf(x), BigOf(y)), BigOf(z))

----------------------------------------------------------------------------
(* Values *)

\* a postal code that is null in the store or absent from the request body
NullZip == <<-1>>
NoCode == <<>>
\* `${postal}`: the template literal prints null as the four letters "null"
TemplateStr(postal) ==
  IF postal = NullZip THEN <<110, 117, 108, 108>> ELSE postal
\* JavaScript truthiness of a postal code / an id / a number
TruthyCode(postal) == postal # NullZip /\ postal # NoCode
Truthy(n) == n # 0

\* "H2K 4P5", "K2H 4P5" (the same characters), "M5V 2T6", "L0L 1P0"
PostalH2K == <<72, 50, 75, 32, 52, 80, 53>>
PostalK2H == <<75, 50, 72, 32, 52, 80, 53>>
PostalM5V == <<77, 53, 86, 32, 50, 84, 54>>
PostalL0L == <<76, 48, 76, 32, 49, 80, 48>>

\* strings whose code units add up to 4900 (49 times "d") and to 4899
Repeated(code, n) == [i \in 1..n |-> code]
CodeSum4900 == Repeated(100, 49)
CodeSum4899 == Repeated(100, 48) \o <<99>>

Item(w, l, wd, h, q) ==
  [weight |-> w, length |-> l, width |-> wd, height |-> h, quantity |-> q]

\* the items a request may carry: the documented example (5 kg, 300x200x150
\* mm, twice), a light carton, a crate just above 100 lb, an item whose
\* length is 0
Catalog ==
  { Item(5000, 300, 200, 150, 2),
    Item(100, 300, 200, 150, 1),
    Item(45360, 300, 300, 300, 1),
    Item(5000, 0, 200, 150, 1) }

RECURSIVE SeqsUpTo(_, _)
SeqsUpTo(S, n) ==
  IF n = 0 THEN { <<>> }
  ELSE LET shorter == SeqsUpTo(S, n - 1)
       IN  shorter \cup { Append(s, x) : s \in { t \in shorter : Len(t) = n - 1 }, x \in S }

ItemLists == SeqsUpTo(Catalog, MaxItems)

Warehouse(id, zip) == [id |-> id, zipcode |-> zip]

\* contents of the warehouse store the deployment may hold
WarehouseStores ==
  { <<>>,
    << Warehouse(1, PostalH2K), Warehouse(2, PostalK2H), Warehouse(3, PostalM5V) >>,
    << Warehouse(3, PostalM5V), Warehouse(2, PostalK2H), Warehouse(1, PostalH2K) >>,
    << Warehouse(4, NullZip), Warehouse(1, PostalH2K) >> }

\* density ranges in hundredths of lb/in3; no range covers 0.05
FreightClassTable ==
  << [id |-> 1, freightClass |-> 400, minDensity |-> 0, maxDensity |-> 1],
     [id |-> 2, freightClass |-> 300, minDensity |-> 2, maxDensity |-> 4],
     [id |-> 3, freightClass |-> 200, minDensity |-> 6, maxDensity |-> 10] >>

\* distance ranges in metres (the store holds km); integer-km ranges leave
\* the distances between 500 and 501 km and between 923 and 945 km uncovered
DistanceClassTable ==
  << [id |-> 1, distanceClass |-> "A", minDistance |-> 0, maxDistance |-> 500000],
     [id |-> 2, distanceClass |-> "B", minDistance |-> 501000, maxDistance |-> 923000],
     [id |-> 3, distanceClass |-> "C", minDistance |-> 945000, maxDistance |-> 5000000] >>

Rate(id, fc, dc, price) ==
  [id |-> id, freightClass |-> fc, distanceClass |-> dc, pricePer100lbs |-> price]

\* no entry for freight class 3 beyond distance class 1, none for (1, 3)
PriceTableStore ==
  << Rate(1, 1, 1, 4500), Rate(2, 1, 2, 6000), Rate(3, 1, 2, 5000),
     Rate(4, 2, 1, 6000), Rate(5, 2, 2, 4500), Rate(6, 2, 3, 7000),
     Rate(7, 3, 1, 100) >>

NoFreightClass == [id |-> 0, freightClass |-> 0, minDensity |-> 0, maxDensity |-> 0]
NoDistanceClass == [id |-> 0, distanceClass |-> "", minDistance |-> 0, maxDistance |-> 0]

----------------------------------------------------------------------------
(* estimatePostalCodeDistance / estimateDistance *)

\* a hash in which the place of a character counts
RECURSIVE CharCodeHash(_)
CharCodeHash(str) ==
  IF str = <<>> THEN 0 ELSE (Head(str) + 31 * CharCodeHash(Tail(str))) % 65536

\* for (let i = 0; i < combinedCode.length; i++) hash += combinedCode.charCodeAt(i)
RECURSIVE CharCodeSum(_)
CharCodeSum(str) == IF str = <<>> THEN 0 ELSE Head(str) + CharCodeSum(Tail(str))

\* km
estimatePostalCodeDistance(postal1, postal2) ==
  LET combinedCode == TemplateStr(postal1) \o TemplateStr(postal2)
      hash == CharCodeSum(combinedCode)
  IN  (hash % HashModulus) + HashOffset

\* the hash taken modulo 4900 with the offset of 100 left out
estimateDistanceNoOffset(originPostalCode, destinationPostalCode) ==
  CharCodeSum(TemplateStr(originPostalCode) \o TemplateStr(destinationPostalCode))
    % HashModulus

\* the service's estimateDistance(originPostalCode, destinationPostalCode), km
estimateDistance(originPostalCode, destinationPostalCode) ==
  LET combinedCode == TemplateStr(originPostalCode) \o TemplateStr(destinationPostalCode)
      hash == CharCodeSum(combinedCode)
      distance_ == (hash % HashModulus) + HashOffset
  IN  distance_

----------------------------------------------------------------------------
(* calculateDensity *)

\* item.weight * item.quantity: the weight in lb times 453.592
ItemWeight(item) == item.weight * item.quantity
\* the volume of one piece, the quantity left out
ItemVolumeOnce(item) == item.length * item.width * item.height

\* item.length * item.width * item.height * item.quantity: volumeMm3
ItemVolume(item) == item.length * item.width * item.height * item.quantity

\* the loop of calculateDensity: totalWeightLbs (as grams) after the items
RECURSIVE TotalWeight(_)
TotalWeight(items) ==
  IF items = <<>> THEN 0 ELSE ItemWeight(Head(items)) + TotalWeight(Tail(items))

\* the loop of calculateDensity: totalVolumeCubicInches (as mm3)
RECURSIVE TotalVolume(_)
TotalVolume(items) ==
  IF items = <<>> THEN 0 ELSE ItemVolume(Head(items)) + TotalVolume(Tail(items))

\* rounding up instead: the least n with num / den <= n
RECURSIVE MathCeil(_, _, _)
MathCeil(twiceNum, den, n) ==
  IF BigCmp(twiceNum, BigMul(den, BigOf(2 * n))) > 0
  THEN MathCeil(twiceNum, den, n + 1)
  ELSE n

\* Math.round(num / den) for num, den >= 0 held as twice num and den:
\* the least n with num / den < n + 1/2
RECURSIVE MathRound(_, _, _)
MathRound(twiceNum, den, n) ==
  IF BigCmp(twiceNum, BigMul(den, BigOf(2 * n + 1))) >= 0
  THEN MathRound(twiceNum, den, n + 1)
  ELSE n

\* Math.round(density * 100) with
\* density = (grams / 453.592) / (mm3 / 16387.064)
RoundedDensity(grams, mm3) ==
  MathRound(BigProd3(2 * grams, Mm3PerIn3Milli, DensityScale),
            BigProd3(mm3, GramsPerLbMilli, 1), 0)

\* calculateDensity without the check of the total volume
calculateDensityUnchecked(items) ==
  [ok |-> TRUE,
   value |-> IF TotalVolume(items) = 0 THEN 0
             ELSE RoundedDensity(TotalWeight(items), TotalVolume(items)),
   error |-> ""]

\* the outcome of calculateDensity(items): a density or the thrown error
calculateDensity(items) ==
  LET totalWeightLbs == TotalWeight(items)
      totalVolumeCubicInches == TotalVolume(items)
  IN  IF totalVolumeCubicInches = 0
      THEN [ok |-> FALSE, value |-> 0,
            error |-> "Invalid item dimensions: volume cannot be zero"]
      ELSE [ok |-> TRUE,
            value |-> RoundedDensity(totalWeightLbs, totalVolumeCubicInches),
            error |-> ""]

----------------------------------------------------------------------------
(* price *)

\* Math.ceil(totalWeightLbs / 100), the weight given in grams
units100lbs(grams) ==
  LET num == grams * 1000
      den == GramsPerLbMilli * LbsPerUnit
  IN  (num + den - 1) \div den

RECURSIVE Pow2Below(_)
\* the largest power of two that is at most n, n >= 1
Pow2Below(n) == IF n < 2 THEN 1 ELSE 2 * Pow2Below(n \div 2)

\* Math.floor(totalPrice * 1.15) in IEEE double arithmetic, totalPrice an
\* integer.  The double nearest 1.15 is 1.15 - 0.4 * 2^-52, so the exact
\* product is 1.15 * totalPrice - 0.4 * totalPrice * 2^-52.  When
\* 1.15 * totalPrice is no integer the floor is that of the exact value.
\* When it is an integer N, with 2^k <= N < 2^(k+1), the doubles next to N
\* are 2^(k-52) apart and the product rounds to the double below N exactly
\* when 0.4 * totalPrice * 2^-52 > 2^(k-53), that is 16 * N > 23 * 2^k (a
\* tie rounds to the even mantissa, which is N); the floor is then N - 1.
MulMarkup(totalPrice) ==
  IF totalPrice = 0 \/ totalPrice % 20 # 0
  THEN (totalPrice * 23) \div 20
  ELSE LET N == (totalPrice \div 20) * 23
       IN  IF 16 * N > 23 * Pow2Below(N) THEN N - 1 ELSE N

----------------------------------------------------------------------------
(* the range tables and the price table *)

\* a range that leaves its upper end out
InDensityRangeHalfOpen(record, d) == record.minDensity <= d /\ record.maxDensity > d

\* filters: { minDensity: { $lte: density }, maxDensity: { $gte: density } }
InDensityRange(record, d) == record.minDensity <= d /\ record.maxDensity >= d

\* filters: { minDistance: { $lte: distance }, maxDistance: { $gte: distance } }
InDistanceRange(record, d) == record.minDistance <= d /\ record.maxDistance >= d

\* a filter on the freight class alone
RateMatchesClassOnly(rate, freightClassId, distanceClassId) ==
  rate.freightClass = freightClassId

\* filters: { freightClass: freightClassId, distanceClass: distanceClassId }
RateMatches(rate, freightClassId, distanceClassId) ==
  rate.freightClass = freightClassId /\ rate.distanceClass = distanceClassId

\* .find({ filters: { minDensity: ..., maxDensity: ... } }).results
FindFreightClasses(d) ==
  SelectSeq(freightClasses, LAMBDA r : InDensityRange(r, d))

\* a lookup that falls back to the whole table when no range covers d
FindDistanceClassesOrAll(d) ==
  LET hits == SelectSeq(distanceClasses, LAMBDA r : InDistanceRange(r, d))
  IN  IF hits = <<>> THEN distanceClasses ELSE hits

\* .find({ filters: { minDistance: ..., maxDistance: ... } }).results
FindDistanceClasses(d) ==
  SelectSeq(distanceClasses, LAMBDA r : InDistanceRange(r, d))

\* rates.results || []
getApplicableRates(freightClassId, distanceClassId) ==
  SelectSeq(priceTable, LAMBDA r : RateMatches(r, freightClassId, distanceClassId))

----------------------------------------------------------------------------
(* Messages, results, responses *)

\* an Error's message or the text of a response; `${...}` parts are args
Msg(prefix, text, arg, arg2) ==
  [prefix |-> prefix, text |-> text, arg |-> arg, arg2 |-> arg2]
NoMsg == Msg("", "", 0, "")

\* RateCalculationResult; -1 marks a field that was never computed
NoData ==
  [density |-> -1, freightClass |-> 0, applicableRates |-> <<>>,
   lowestRate |-> -1, distance |-> -1]

NoSvcResult == [kind |-> "none", message |-> NoMsg, data |-> NoData]
Returned(data) == [kind |-> "returned", message |-> NoMsg, data |-> data]
Threw(message) == [kind |-> "threw", message |-> message, data |-> NoData]

\* RateResponse['rates'] | null
NullRates == [isNull |-> TRUE, list |-> <<>>]
Rates(list) == [isNull |-> FALSE, list |-> list]

\* the comparison member of the response, null or an object
NoComparison ==
  [isNull |-> TRUE, internalPrice |-> -1,
   freightApiLowestPrice |-> [cents |-> 0, ulps |-> 0], freightApiRates |-> <<>>]

NoResponse ==
  [status |-> 0, message |-> NoMsg, data |-> NoData,
   selectedWarehouseId |-> 0, originPostalCode |-> NoCode,
   freightApiRates |-> NullRates, comparison |-> NoComparison]

\* a stored calculation; createdAt orders the store's records
FreightRate(id, createdAt) == [id |-> id, createdAt |-> createdAt]
\* what the store may hold when the deployment starts
FreightRateStores ==
  { <<>>, << FreightRate(1, 10), FreightRate(2, 30), FreightRate(3, 20) >> }

\* the answer of history; status 0 while it was not asked
NoHistory == [status |-> 0, data |-> <<>>]
\* ctx.badRequest(text) / ctx.internalServerError(text)
ErrorResponse(status, message) ==
  [NoResponse EXCEPT !.status = status, !.message = message]

\* the request body; fields a caller leaves out are falsy
NoRequest ==
  [itemsKind |-> "missing", items |-> <<>>, destinationPostalCode |-> NoCode,
   warehouseId |-> 0, originPostalCode |-> NoCode,
   distanceGiven |-> FALSE, distance |-> 0]

\* a calculateRate call that has not been made
NoPeer ==
  [pc |-> "idle", itemsKind |-> "missing", items |-> <<>>,
   distanceGiven |-> FALSE, distance |-> 0,
   density |-> -1, freightClassRecord |-> NoFreightClass,
   distanceClass |-> NoDistanceClass, applicableRates |-> <<>>,
   result |-> NoSvcResult]

\* Infinity, the distance of a warehouse whose routing query failed
Infinity == -1
\* a < b on distances that may be Infinity
DistLess(a, b) == a # Infinity /\ (b = Infinity \/ a < b)

\* what the routing provider may answer for one query, in metres
RouteMetres == { 350000, 500500 }

----------------------------------------------------------------------------
(* Initial state: a deployment with its reference data, no request yet *)

Init ==
  /\ variant \in { "estimate", "routing" }
  /\ googleKey \in BOOLEAN
  /\ (variant = "estimate" => googleKey = FALSE)
  /\ warehouses \in WarehouseStores
  /\ freightClasses = FreightClassTable
  /\ distanceClasses = DistanceClassTable
  /\ priceTable = PriceTableStore
  /\ pc = "idle"
  /\ entry = ""
  /\ req = NoRequest
  /\ warehousePostalCode = NoCode
  /\ selectedWarehouseId = 0
  /\ distance = 0
  /\ originPath = ""
  /\ warehouseLookup = "none"
  /\ warehouseDistances = <<>>
  /\ routeCalls = <<>>
  /\ routeFailures = 0
  /\ settleOrder = <<>>
  /\ density = -1
  /\ freightClassRecord = NoFreightClass
  /\ distanceClass = NoDistanceClass
  /\ applicableRates = <<>>
  /\ rateCalls = 0
  /\ priceTableReads = 0
  /\ svcResult = NoSvcResult
  /\ response = NoResponse
  /\ freightRates \in FreightRateStores
  /\ (variant = "routing" => freightRates = <<>>)
  /\ elapsed = 0
  /\ polls = 0
  /\ cmpOutcome = ""
  /\ freightApiRates = NullRates
  /\ historyResponse = NoHistory
  /\ peer = NoPeer

controllerLocals == <<warehousePostalCode, selectedWarehouseId, distance, originPath,
                      warehouseLookup, warehouseDistances, routeCalls,
                      routeFailures, settleOrder>>
comparatorLocals == <<elapsed, polls, cmpOutcome, freightApiRates>>
serviceLocals == <<density, freightClassRecord, distanceClass, applicableRates,
                   rateCalls, priceTableReads, svcResult>>

----------------------------------------------------------------------------
(* The caller *)

\* POST .../calculate with some body
RequestCalculate ==
  /\ pc = "idle"
  /\ \E kind \in { "array", "missing", "notArray" },
        items \in ItemLists,
        dest \in { NoCode, PostalL0L },
        wid \in { 0, 1, 4, 9 },
        origin \in { NoCode, PostalM5V } :
       /\ (kind # "array" => items = <<>>)
       /\ req' = [NoRequest EXCEPT !.itemsKind = kind, !.items = items,
                                   !.destinationPostalCode = dest,
                                   !.warehouseId = wid,
                                   !.originPostalCode = origin]
  /\ entry' = "calculate"
  /\ pc' = "validate"
  /\ UNCHANGED <<config, stores, peer, comparatorLocals, historyResponse, controllerLocals, serviceLocals, response>>

\* strapi.service('api::freight-rate.freight-rate').calculateRate(input)
RequestCalculateRate ==
  /\ pc = "idle"
  /\ \E kind \in { "array", "missing" },
        items \in ItemLists,
        given \in BOOLEAN,
        d \in { -1000, 0, 500500, 501000, 945000 } :
       /\ (kind # "array" => items = <<>>)
       /\ (~given => d = 0)
       /\ req' = [NoRequest EXCEPT !.itemsKind = kind, !.items = items,
                                   !.distanceGiven = given, !.distance = d]
       /\ distance' = d
  /\ entry' = "calculateRate"
  /\ pc' = "rate"
  /\ UNCHANGED <<config, stores, peer, comparatorLocals, historyResponse,
                 warehousePostalCode, selectedWarehouseId, originPath,
                 warehouseLookup, warehouseDistances, routeCalls, routeFailures,
                 settleOrder,
                 serviceLocals, response>>

\* strapi.service('api::freight-rate.freight-rate').calculateDensity(items)
RequestCalculateDensity ==
  /\ pc = "idle"
  /\ \E items \in ItemLists :
       req' = [NoRequest EXCEPT !.itemsKind = "array", !.items = items]
  /\ entry' = "calculateDensity"
  /\ pc' = "density"
  /\ UNCHANGED <<config, stores, peer, comparatorLocals, historyResponse, controllerLocals, serviceLocals, response>>

\* strapi.service('api::freight-rate.freight-rate')
\*   .estimateDistance(originPostalCode, destinationPostalCode)
EstimateDistance ==
  /\ pc = "idle"
  /\ \E origin \in { PostalH2K, PostalK2H, CodeSum4900, CodeSum4899 },
        dest \in { NoCode, PostalL0L } :
       /\ req' = [NoRequest EXCEPT !.originPostalCode = origin,
                                   !.destinationPostalCode = dest]
       /\ svcResult' = Returned(
            [NoData EXCEPT !.distance = MetresPerKm * estimateDistance(origin, dest)])
  /\ entry' = "estimateDistance"
  /\ pc' = "done"
  /\ UNCHANGED <<config, stores, peer, comparatorLocals, historyResponse, controllerLocals, density, freightClassRecord,
                 distanceClass, applicableRates, rateCalls, priceTableReads,
                 response>>

----------------------------------------------------------------------------
(* calculate: validation of the body *)

\* a check of the weight alone
ItemCompleteWeightOnly(item) == Truthy(item.weight)

\* !item.weight || !item.length || !item.width || !item.height || !item.quantity;
\* a field the item lacks is held as 0
ItemComplete(item) ==
  /\ Truthy(item.weight) /\ Truthy(item.length) /\ Truthy(item.width)
  /\ Truthy(item.height) /\ Truthy(item.quantity)

Validate ==
  /\ pc = "validate"
  /\ IF req.itemsKind # "array" \/ Len(req.items) = 0
     THEN /\ response' = ErrorResponse(400,
                Msg("", "Items array is required and must not be empty", 0, ""))
          /\ pc' = "done"
     ELSE IF ~TruthyCode(req.destinationPostalCode)
     THEN /\ response' = ErrorResponse(400,
                Msg("", "Destination postal code is required", 0, ""))
          /\ pc' = "done"
     ELSE IF \E i \in 1..Len(req.items) : ~ItemComplete(req.items[i])
     THEN /\ response' = ErrorResponse(400,
                Msg("", "Each item must have weight, length, width, height, and quantity", 0, ""))
          /\ pc' = "done"
     ELSE /\ pc' = "origin"
          /\ UNCHANGED response
  /\ UNCHANGED <<config, stores, peer, comparatorLocals, historyResponse, entry, req, controllerLocals, serviceLocals>>

----------------------------------------------------------------------------
(* calculate: the origin and the distance *)

NoWarehouse == Warehouse(0, NullZip)

\* a lookup that falls back to the first warehouse of the store
findOneOrFirst(id) ==
  LET hits == SelectSeq(warehouses, LAMBDA w : w.id = id)
  IN  IF hits # <<>> THEN hits[1]
      ELSE IF warehouses # <<>> THEN warehouses[1]
      ELSE NoWarehouse

\* strapi.entityService.findOne('api::warehouse.warehouse', warehouseId)
findOne(id) ==
  LET hits == SelectSeq(warehouses, LAMBDA w : w.id = id)
  IN  IF hits = <<>> THEN NoWarehouse ELSE hits[1]

\* strapi.entityService.findMany('api::warehouse.warehouse', { limit: 1000 })
findMany ==
  IF Len(warehouses) <= WarehouseLimit THEN warehouses
  ELSE SubSeq(warehouses, 1, WarehouseLimit)

\* what the controller learns from findOne
LookupOne(dbOk, warehouse) ==
  IF ~dbOk THEN "failed"
  ELSE IF warehouse = NoWarehouse THEN "missing"
  ELSE IF ~TruthyCode(warehouse.zipcode) THEN "noZip"
  ELSE "found"

\* what the controller learns from findMany
LookupMany(dbOk, list) ==
  IF ~dbOk THEN "failed" ELSE IF Len(list) = 0 THEN "empty" ELSE "list"

\* the distance the scan computes for each warehouse, in metres
EstimatedDistances(list, dest) ==
  [i \in 1..Len(list) |->
     [warehouse |-> list[i],
      distance |-> MetresPerKm * estimatePostalCodeDistance(list[i].zipcode, dest)]]

\* <= in place of <
CloserOrEqual(d, closestDistance) == d <= closestDistance

\* if (distance < closestDistance)
CloserThan(d, closestDistance) == d < closestDistance

\* for (const warehouse of warehouses) { ... } of the hash-estimate controllers
RECURSIVE ScanClosest(_, _, _)
ScanClosest(list, dest, closest) ==
  IF list = <<>>
  THEN closest
  ELSE LET d == estimatePostalCodeDistance(Head(list).zipcode, dest)
       IN  ScanClosest(Tail(list), dest,
                       IF CloserThan(d, closest.distance)
                       THEN [warehouse |-> Head(list), distance |-> d]
                       ELSE closest)

\* closestWarehouse / closestDistance after the loop, the list not empty
ClosestByEstimate(list, dest) ==
  ScanClosest(list, dest,
              [warehouse |-> list[1],
               distance |-> estimatePostalCodeDistance(list[1].zipcode, dest)])

\* warehouseDistances.reduce((prev, curr) =>
\*   curr.distance < prev.distance ? curr : prev)
RECURSIVE Reduce(_, _)
Reduce(rest, prev) ==
  IF rest = <<>>
  THEN prev
  ELSE Reduce(Tail(rest),
              IF DistLess(Head(rest).distance, prev.distance)
              THEN Head(rest) ELSE prev)

\* the orders in which n concurrent queries may complete
CompletionOrders(n) ==
  { [i \in 1..n |-> i], [i \in 1..n |-> n + 1 - i] }

\* a join that lists the results as they arrive
PromiseAllAsSettled(order, settled, values) ==
  [k \in 1..Len(order) |-> settled[order[k]]]

\* Promise.all: each result is put at the index of its promise as it
\* arrives; the array is handed over when the last has arrived
RECURSIVE PromiseAll(_, _, _)
PromiseAll(order, settled, values) ==
  IF order = <<>>
  THEN values
  ELSE PromiseAll(Tail(order), settled,
                  [values EXCEPT ![Head(order)] = settled[Head(order)]])

ClosestByRouting(distances) ==
  Reduce(Tail(distances), Head(distances))

\* getGoogleDistance: a distance in metres, or the error it throws
RouteOk(metres) == [ok |-> TRUE, metres |-> metres]
RouteThrew == [ok |-> FALSE, metres |-> 0]
\* a routing that throws when GOOGLE_API_KEY is not set
GoogleAnswersKeyRequired ==
  IF googleKey
  THEN { RouteThrew } \cup { RouteOk(m) : m \in RouteMetres }
  ELSE { RouteThrew }

GoogleAnswers ==
  IF googleKey
  THEN { RouteThrew } \cup { RouteOk(m) : m \in RouteMetres }
  ELSE { RouteOk(DefaultDistanceKm * MetresPerKm) }

\* a failed query counted as no distance at all
MeasuredOrZero(answer) == IF answer.ok THEN answer.metres ELSE 0

\* try { return { warehouse, distance: dist } }
\* catch { return { warehouse, distance: Infinity } }
Measured(answer) == IF answer.ok THEN answer.metres ELSE Infinity

\* an origin taken as given whatever the body holds
OriginAssumed(origin) == TRUE

\* if (originPostalCode)
OriginGiven(origin) == TruthyCode(origin)

\* the origins of the queries that reach the provider
Sent(origins) == IF googleKey THEN routeCalls \o origins ELSE routeCalls

\* calculateRate called whatever the postal code is
ProceedAlways(postalCode) == pc' = "rate" /\ UNCHANGED response

\* if (!warehousePostalCode) return ctx.badRequest(...); else calculateRate
Proceed(postalCode) ==
  IF TruthyCode(postalCode)
  THEN pc' = "rate" /\ UNCHANGED response
  ELSE /\ pc' = "done"
       /\ response' = ErrorResponse(400,
             Msg("", "Could not determine origin postal code", 0, ""))

Fail(path, status, message) ==
  /\ originPath' = path
  /\ pc' = "done"
  /\ response' = ErrorResponse(status, message)

WarehouseNotFound ==
  Msg("", "Warehouse not found", req.warehouseId, "")

\* if (warehouseId) { ... } of the hash-estimate controllers
UseWarehouseEstimate ==
  /\ pc = "origin" /\ variant = "estimate" /\ Truthy(req.warehouseId)
  /\ \E dbOk \in BOOLEAN :
       LET warehouse == findOne(req.warehouseId)
           found == LookupOne(dbOk, warehouse) = "found"
       IN  /\ warehouseLookup' = LookupOne(dbOk, warehouse)
           /\ found =>
                /\ warehousePostalCode' = warehouse.zipcode
                /\ selectedWarehouseId' = req.warehouseId
                /\ distance' = MetresPerKm *
                     estimatePostalCodeDistance(warehouse.zipcode, req.destinationPostalCode)
                /\ originPath' = "explicit"
                /\ Proceed(warehouse.zipcode)
           /\ ~found =>
                /\ Fail("notFound", 400, WarehouseNotFound)
                /\ UNCHANGED <<warehousePostalCode, selectedWarehouseId, distance>>
  /\ UNCHANGED <<config, stores, peer, comparatorLocals, historyResponse, entry, req,
                 warehouseDistances, routeCalls, routeFailures, settleOrder,
                 serviceLocals>>

\* if (warehouseId) { ... } of the external-routing controller
UseWarehouseRouting ==
  /\ pc = "origin" /\ variant = "routing" /\ Truthy(req.warehouseId)
  /\ \E dbOk \in BOOLEAN, answer \in GoogleAnswers :
       LET warehouse == findOne(req.warehouseId)
           found == LookupOne(dbOk, warehouse) = "found"
       IN  /\ warehouseLookup' = LookupOne(dbOk, warehouse)
           /\ (found /\ answer.ok) =>
                /\ warehousePostalCode' = warehouse.zipcode
                /\ selectedWarehouseId' = req.warehouseId
                /\ routeCalls' = Sent(<<warehouse.zipcode>>)
                /\ distance' = answer.metres
                /\ originPath' = "explicit"
                /\ Proceed(warehouse.zipcode)
                /\ UNCHANGED routeFailures
           /\ (found /\ ~answer.ok) =>
                /\ warehousePostalCode' = warehouse.zipcode
                /\ selectedWarehouseId' = req.warehouseId
                /\ routeCalls' = Sent(<<warehouse.zipcode>>)
                /\ routeFailures' = routeFailures + 1
                /\ Fail("notFound", 400, WarehouseNotFound)
                /\ UNCHANGED distance
           /\ ~found =>
                /\ Fail("notFound", 400, WarehouseNotFound)
                /\ UNCHANGED <<warehousePostalCode, selectedWarehouseId, distance,
                               routeCalls, routeFailures>>
  /\ UNCHANGED <<config, stores, peer, comparatorLocals, historyResponse, entry, req,
                 warehouseDistances, settleOrder, serviceLocals>>

\* else { try { findMany ... } catch { ... } } of the hash-estimate controllers
SelectWarehouseEstimate ==
  /\ pc = "origin" /\ variant = "estimate" /\ ~Truthy(req.warehouseId)
  /\ \E dbOk \in BOOLEAN :
       LET list == findMany
           origin == req.originPostalCode
           closest == ClosestByEstimate(list, req.destinationPostalCode)
           looked == LookupMany(dbOk, list)
       IN  /\ warehouseLookup' = looked
           /\ warehouseDistances' =
                IF looked = "list"
                THEN EstimatedDistances(list, req.destinationPostalCode)
                ELSE <<>>
           /\ CASE looked = "failed" /\ OriginGiven(origin) ->
                     /\ warehousePostalCode' = origin
                     /\ originPath' = "errorFallback"
                     /\ Proceed(origin)
                     /\ UNCHANGED <<selectedWarehouseId, distance>>
                [] looked = "failed" /\ ~OriginGiven(origin) ->
                     /\ Fail("errorNoOrigin", 500,
                             Msg("", "Failed to determine warehouse location", 0, ""))
                     /\ UNCHANGED <<warehousePostalCode, selectedWarehouseId, distance>>
                [] looked = "empty" /\ OriginGiven(origin) ->
                     /\ warehousePostalCode' = origin
                     /\ originPath' = "emptyFallback"
                     /\ Proceed(origin)
                     /\ UNCHANGED <<selectedWarehouseId, distance>>
                [] looked = "empty" /\ ~OriginGiven(origin) ->
                     /\ Fail("emptyNoOrigin", 400,
                             Msg("", "No warehouses found and originPostalCode not provided", 0, ""))
                     /\ UNCHANGED <<warehousePostalCode, selectedWarehouseId, distance>>
                [] looked = "list" ->
                     /\ distance' = MetresPerKm * closest.distance
                     /\ warehousePostalCode' = closest.warehouse.zipcode
                     /\ selectedWarehouseId' = closest.warehouse.id
                     /\ originPath' = "auto"
                     /\ Proceed(closest.warehouse.zipcode)
  /\ UNCHANGED <<config, stores, peer, comparatorLocals, historyResponse, entry, req,
                 routeCalls, routeFailures, settleOrder, serviceLocals>>

\* else { try { findMany ... Promise.all ... reduce } catch { ... } } of the
\* external-routing controller
SelectWarehouseRouting ==
  /\ pc = "origin" /\ variant = "routing" /\ ~Truthy(req.warehouseId)
  /\ \E dbOk \in BOOLEAN,
        answers \in [1..Len(findMany) -> GoogleAnswers],
        completion \in CompletionOrders(Len(findMany)),
        first \in GoogleAnswers,
        second \in GoogleAnswers :
       LET list == findMany
           origin == req.originPostalCode
           looked == LookupMany(dbOk, list)
           \* Promise.all(warehouses.map(...)): a failed query counts Infinity
           settled ==
             [i \in 1..Len(list) |->
                [warehouse |-> list[i],
                 distance |-> Measured(answers[i])]]
           computed ==
             PromiseAll(completion, settled,
                        [i \in 1..Len(list) |-> [warehouse |-> NoWarehouse,
                                                  distance |-> Infinity]])
           closest == ClosestByRouting(computed)
           \* how the try block ends
           tried ==
             IF looked = "failed" THEN "threw"
             ELSE IF looked = "empty"
             THEN IF OriginGiven(origin)
                  THEN IF first.ok THEN "origin" ELSE "threw"
                  ELSE "noOrigin"
             ELSE IF closest.distance = Infinity THEN "threw" ELSE "closest"
           \* the queries of the try block, in the order they are issued
           triedQueries ==
             IF looked = "failed" THEN <<>>
             ELSE IF looked = "empty"
             THEN IF OriginGiven(origin) THEN <<origin>> ELSE <<>>
             ELSE [i \in 1..Len(list) |-> list[i].zipcode]
           \* how many of them the provider failed
           triedFailures ==
             IF looked = "failed" THEN 0
             ELSE IF looked = "empty"
             THEN IF OriginGiven(origin) /\ ~first.ok THEN 1 ELSE 0
             ELSE Cardinality({ i \in 1..Len(list) : ~answers[i].ok })
       IN  /\ warehouseLookup' = looked
           /\ warehouseDistances' = IF looked = "list" THEN computed ELSE <<>>
           /\ settleOrder' = IF looked = "list" THEN completion ELSE <<>>
           /\ CASE tried = "closest" ->
                     /\ distance' = closest.distance
                     /\ warehousePostalCode' = closest.warehouse.zipcode
                     /\ selectedWarehouseId' = closest.warehouse.id
                     /\ routeCalls' = Sent(triedQueries)
                     /\ routeFailures' = triedFailures
                     /\ originPath' = "auto"
                     /\ Proceed(closest.warehouse.zipcode)
                [] tried = "origin" ->
                     /\ distance' = first.metres
                     /\ warehousePostalCode' = origin
                     /\ routeCalls' = Sent(triedQueries)
                     /\ routeFailures' = triedFailures
                     /\ originPath' = "emptyFallback"
                     /\ Proceed(origin)
                     /\ UNCHANGED selectedWarehouseId
                [] tried = "noOrigin" ->
                     /\ Fail("emptyNoOrigin", 400,
                             Msg("", "No warehouses found and originPostalCode not provided", 0, ""))
                     /\ UNCHANGED <<warehousePostalCode, selectedWarehouseId, distance,
                                    routeCalls, routeFailures>>
                [] tried = "threw" /\ OriginGiven(origin) /\ second.ok ->
                     /\ warehousePostalCode' = origin
                     /\ routeCalls' = Sent(triedQueries \o <<origin>>)
                     /\ routeFailures' = triedFailures
                     /\ distance' = second.metres
                     /\ originPath' = "errorFallback"
                     /\ Proceed(origin)
                     /\ UNCHANGED selectedWarehouseId
                [] tried = "threw" /\ OriginGiven(origin) /\ ~second.ok ->
                     /\ warehousePostalCode' = origin
                     /\ routeCalls' = Sent(triedQueries \o <<origin>>)
                     /\ routeFailures' = triedFailures + 1
                     /\ Fail("fallbackFailed", 500,
                             Msg("", "Failed to calculate shipping distance", 0, ""))
                     /\ UNCHANGED <<selectedWarehouseId, distance>>
                [] tried = "threw" /\ ~OriginGiven(origin) ->
                     /\ Fail("errorNoOrigin", 500,
                             Msg("", "Failed to determine warehouse location", 0, ""))
                     /\ routeCalls' = Sent(triedQueries)
                     /\ routeFailures' = triedFailures
                     /\ UNCHANGED <<warehousePostalCode, selectedWarehouseId, distance>>
  /\ UNCHANGED <<config, stores, peer, comparatorLocals, historyResponse, entry, req, serviceLocals>>

----------------------------------------------------------------------------
(* The freight-rate service *)

\* where a finished service call continues: in the controller that awaits
\* it, or at the caller of the service
AfterService == IF entry = "calculate" THEN "respond" ELSE "done"

Throw(message) ==
  /\ svcResult' = Threw(message)
  /\ pc' = AfterService

\* calculateRate, its argument checks
RateCheckInput ==
  /\ pc = "rate"
  /\ rateCalls' = rateCalls + 1
  /\ IF req.itemsKind # "array" \/ Len(req.items) = 0
     THEN Throw(Msg("", "No items provided for rate calculation", 0, ""))
     ELSE IF entry = "calculateRate" /\ (~req.distanceGiven \/ distance < 0)
     THEN Throw(Msg("", "Distance is required and must be a positive number", 0, ""))
     ELSE pc' = "density" /\ UNCHANGED svcResult
  /\ UNCHANGED <<config, stores, peer, comparatorLocals, historyResponse, entry, req, controllerLocals, density,
                 freightClassRecord, distanceClass, applicableRates,
                 priceTableReads, response>>

\* calculateDensity(items), called by calculateRate or directly
CalculateDensity ==
  /\ pc = "density"
  /\ LET outcome == calculateDensity(req.items)
     IN  IF ~outcome.ok
         THEN Throw(Msg("", outcome.error, 0, "")) /\ UNCHANGED density
         ELSE /\ density' = outcome.value
              /\ IF entry = "calculateDensity"
                 THEN /\ svcResult' = Returned([NoData EXCEPT !.density = outcome.value])
                      /\ pc' = "done"
                 ELSE pc' = "freightClass" /\ UNCHANGED svcResult
  /\ UNCHANGED <<config, stores, peer, comparatorLocals, historyResponse, entry, req, controllerLocals, freightClassRecord,
                 distanceClass, applicableRates, rateCalls, priceTableReads,
                 response>>

\* mapDensityToFreightClass(density)
MapDensityToFreightClass ==
  /\ pc = "freightClass"
  /\ LET results == FindFreightClasses(density)
     IN  IF Len(results) = 0
         THEN /\ Throw(Msg("", "No freight class found for density", density, ""))
              /\ UNCHANGED freightClassRecord
         ELSE /\ freightClassRecord' = results[1]
              /\ pc' = "distanceClass"
              /\ UNCHANGED svcResult
  /\ UNCHANGED <<config, stores, peer, comparatorLocals, historyResponse, entry, req, controllerLocals, density,
                 distanceClass, applicableRates, rateCalls, priceTableReads,
                 response>>

\* findDistanceClass(distance)
FindDistanceClass ==
  /\ pc = "distanceClass"
  /\ LET results == FindDistanceClasses(distance)
     IN  IF Len(results) = 0
         THEN /\ Throw(Msg("", "No distance class found for distance", distance, "km"))
              /\ UNCHANGED distanceClass
         ELSE /\ distanceClass' = results[1]
              /\ pc' = "rates"
              /\ UNCHANGED svcResult
  /\ UNCHANGED <<config, stores, peer, comparatorLocals, historyResponse, entry, req, controllerLocals, density,
                 freightClassRecord, applicableRates, rateCalls, priceTableReads,
                 response>>

\* getApplicableRates(String(freightClassRecord.id), String(distanceClass.id))
\* and the check of its result
GetApplicableRates ==
  /\ pc = "rates"
  /\ priceTableReads' = priceTableReads + 1
  /\ LET rates == getApplicableRates(freightClassRecord.id, distanceClass.id)
     IN  /\ applicableRates' = rates
         /\ IF Len(rates) = 0
            THEN Throw(Msg("", "No rates found for freight class and distance class",
                           freightClassRecord.freightClass, distanceClass.distanceClass))
            ELSE pc' = "price" /\ UNCHANGED svcResult
  /\ UNCHANGED <<config, stores, peer, comparatorLocals, historyResponse, entry, req, controllerLocals, density,
                 freightClassRecord, distanceClass, rateCalls, response>>

\* applicableRates.map((rate) => ({ id: rate.id, pricePer100lbs: ... }))
RECURSIVE Projection(_)
Projection(rates) ==
  IF rates = <<>> THEN <<>>
  ELSE << [id |-> Head(rates).id, pricePer100lbs |-> Head(rates).pricePer100lbs] >>
       \o Projection(Tail(rates))

\* the cheapest entry of the list, the first of the cheapest
SelectCheapest(rates) ==
  rates[CHOOSE i \in 1..Len(rates) :
          /\ \A j \in 1..Len(rates) : rates[i].pricePer100lbs <= rates[j].pricePer100lbs
          /\ \A j \in 1..(i - 1) : rates[j].pricePer100lbs > rates[i].pricePer100lbs]

\* const lowestRate = applicableRates[0]
SelectRate(rates) == rates[1]

\* the final price of calculateRate for the selected rate and the items
FinalPrice(lowestRate, items) ==
  LET basePrice == lowestRate.pricePer100lbs
      totalWeightLbs == TotalWeight(items)
      price100lbs == basePrice
      units == units100lbs(totalWeightLbs)
      totalPrice == price100lbs * units
  IN  MulMarkup(totalPrice)

\* calculateRate, from the selection of the rate to the return
Price ==
  /\ pc = "price"
  /\ svcResult' = Returned(
       [density |-> density,
        freightClass |-> freightClassRecord.freightClass,
        applicableRates |-> Projection(applicableRates),
        lowestRate |-> FinalPrice(SelectRate(applicableRates), req.items),
        distance |-> distance])
  /\ pc' = AfterService
  /\ UNCHANGED <<config, stores, peer, comparatorLocals, historyResponse, entry, req, controllerLocals, density,
                 freightClassRecord, distanceClass, applicableRates, rateCalls,
                 priceTableReads, response>>

----------------------------------------------------------------------------
(* calculate: the answer *)

Respond ==
  /\ pc = "respond"
  /\ variant = "estimate" \/ svcResult.kind = "threw"
  /\ response' =
       IF svcResult.kind = "threw"
       THEN ErrorResponse(500,
              Msg("Rate calculation failed: ", svcResult.message.text,
                  svcResult.message.arg, svcResult.message.arg2))
       ELSE [NoResponse EXCEPT !.status = 200, !.data = svcResult.data,
                               !.selectedWarehouseId = selectedWarehouseId,
                               !.originPostalCode = warehousePostalCode]
  /\ pc' = "done"
  /\ UNCHANGED <<config, stores, peer, comparatorLocals, historyResponse, entry, req, controllerLocals, serviceLocals>>

----------------------------------------------------------------------------
(* The external-routing controller: the comparison with the carrier quotes *)

\* one entry of RateResponse['rates']; total.value is a decimal string with
\* two decimals, held here as the number of hundredths it spells
Quote(id, hundredths) == [service_id |-> id, total |-> hundredths]

\* what the provider may hold as rates once it is done: "19.99",
\* "250.00", "120.50"
QuoteLists ==
  { <<>>,
    << Quote(1, 1999) >>,
    << Quote(1, 25000), Quote(2, 12050) >>,
    << Quote(1, 12050), Quote(2, 1999), Quote(3, 25000) >> }

\* the exponent of the largest power of two that is at most n, n >= 1
RECURSIVE Log2Floor(_)
Log2Floor(n) == IF n < 2 THEN 0 ELSE 1 + Log2Floor(n \div 2)

RECURSIVE Pow2Mod100(_)
Pow2Mod100(k) == IF k = 0 THEN 1 ELSE (2 * Pow2Mod100(k - 1)) % 100

\* a double next to the integer cents: cents + ulps * ulp(cents)
Float(cents, ulps) == [cents |-> cents, ulps |-> ulps]

\* parseFloat(rate.total.value) * 100 in IEEE double arithmetic, for a total
\* that spells c hundredths, c >= 1.  With 2^j <= c < 2^(j+1) and
\* 2^i <= c / 100 < 2^(i+1), parseFloat yields m / 2^k for k = 52 - i and m
\* the integer nearest c * 2^k / 100, off by e = m * 100 - c * 2^k with
\* |e| <= 50, e determined by r = c * 2^k mod 100.  The product m * 100 / 2^k
\* = c + e / 2^k rounds to c when |e| / 2^k <= ulp(c) / 2 = 2^(j-53), that is
\* |e| <= 2^(j-i-1) (a tie goes to the even mantissa, which is c), and to the
\* double next to c otherwise.  j - i is 6 or 7, so the bound is 32 or 64.
totalPriceCents(rate) ==
  LET c == rate.total
      j == Log2Floor(c)
      near == 64 * c >= 100 * Pow2Below(c)
      k == IF near THEN 58 - j ELSE 59 - j
      r == ((c % 100) * Pow2Mod100(k)) % 100
  IN  IF ~near \/ r <= 32 \/ 100 - r <= 32 THEN Float(c, 0)
      ELSE IF r < 50 THEN Float(c, -1)
      ELSE Float(c, 1)

\* a < b on doubles next to distinct or equal integers
FloatLess(a, b) ==
  a.cents < b.cents \/ (a.cents = b.cents /\ a.ulps < b.ulps)

\* Math.min(...values), values not empty
RECURSIVE MathMin(_)
MathMin(values) ==
  IF Len(values) = 1 THEN values[1]
  ELSE LET rest == MathMin(Tail(values))
       IN  IF FloatLess(rest, Head(values)) THEN rest ELSE Head(values)

\* the comparison member: freightApiRates && freightApiRates.length > 0
\*   ? { internalPrice, freightApiLowestPrice, freightApiRates } : null
Comparison(rates, internalResult) ==
  IF ~rates.isNull /\ Len(rates.list) > 0
  THEN [isNull |-> FALSE,
        internalPrice |-> internalResult.lowestRate,
        freightApiLowestPrice |->
          MathMin([i \in 1..Len(rates.list) |-> totalPriceCents(rates.list[i])]),
        freightApiRates |->
          [i \in 1..Len(rates.list) |->
             [serviceId |-> rates.list[i].service_id,
              totalPriceCents |-> totalPriceCents(rates.list[i])]]]
  ELSE NoComparison

\* an answer whose price is the cheaper of the internal price and the quotes
RespondRoutingCheapest(rates) ==
  LET compared == Comparison(rates, svcResult.data)
      cheapest ==
        IF ~compared.isNull
           /\ compared.freightApiLowestPrice.cents < svcResult.data.lowestRate
        THEN compared.freightApiLowestPrice.cents
        ELSE svcResult.data.lowestRate
  IN  /\ response' = [NoResponse EXCEPT
                        !.status = 200,
                        !.data = [svcResult.data EXCEPT !.lowestRate = cheapest],
                        !.selectedWarehouseId = selectedWarehouseId,
                        !.originPostalCode = warehousePostalCode,
                        !.freightApiRates = rates,
                        !.comparison = compared]
      /\ pc' = "done"

\* return { data: { internalCalculation, freightApiRates, comparison } }
RespondRouting(rates) ==
  /\ response' = [NoResponse EXCEPT !.status = 200, !.data = svcResult.data,
                                    !.selectedWarehouseId = selectedWarehouseId,
                                    !.originPostalCode = warehousePostalCode,
                                    !.freightApiRates = rates,
                                    !.comparison = Comparison(rates, svcResult.data)]
  /\ pc' = "done"

\* a getFreightComRates without its catch: the error reaches calculate's
FinishRaising(outcome, rates) ==
  /\ cmpOutcome' = outcome
  /\ freightApiRates' = rates
  /\ IF outcome \in { "submitFailed", "pollFailed", "timeout" }
     THEN /\ response' = ErrorResponse(500,
                Msg("Rate calculation failed: ", outcome, 0, ""))
          /\ pc' = "done"
     ELSE RespondRouting(rates)

\* getFreightComRates returns (rates, or null from its catch) and calculate
\* builds its answer
Finish(outcome, rates) ==
  /\ cmpOutcome' = outcome
  /\ freightApiRates' = rates
  /\ RespondRouting(rates)

\* getFreightComRates up to the promise: the key, POST /rate, the timers
GetFreightComRates ==
  /\ pc = "respond" /\ variant = "routing" /\ svcResult.kind = "returned"
  /\ \E apiKey \in BOOLEAN, posted \in BOOLEAN :
       IF ~apiKey
       THEN Finish("noKey", NullRates) /\ UNCHANGED <<elapsed, polls>>
       ELSE IF ~posted
       THEN Finish("submitFailed", NullRates) /\ UNCHANGED <<elapsed, polls>>
       ELSE /\ pc' = "poll"
            /\ elapsed' = 0
            /\ polls' = 0
            /\ UNCHANGED <<cmpOutcome, freightApiRates, response>>
  /\ UNCHANGED <<config, stores, peer, historyResponse, entry, req, controllerLocals,
                 serviceLocals>>

\* the promise of the wait exists: the interval and the timeout were set
Armed == pc = "poll" \/ cmpOutcome \in { "done", "pollFailed", "timeout" }

\* a promise that can be settled again
Unsettled == FALSE

\* the promise of the wait has been resolved or rejected
Settled == cmpOutcome # ""

\* resolve(...) / reject(...): the first call decides, a later call does
\* nothing
Settle(outcome, rates) ==
  IF Settled
  THEN UNCHANGED <<pc, cmpOutcome, freightApiRates, response>>
  ELSE Finish(outcome, rates)

\* an interval that no handler clears
IntervalLeftRunning == FALSE

\* clearInterval(timer) has run: it runs in each handler that settles
IntervalCleared == cmpOutcome # ""

\* what one GET /rate/<id> may bring: status.done false (or no answer before
\* the next tick), status.done true with the rates, or an error
PollAnswers ==
  { [kind |-> "pending", rates |-> NullRates], [kind |-> "error", rates |-> NullRates] }
  \cup { [kind |-> "done", rates |-> r] : r \in { NullRates } \cup { Rates(l) : l \in QuoteLists } }

\* the rest of the interval's callback, run when a GET is answered
Answered(answer) ==
  CASE answer.kind = "pending" ->
         UNCHANGED <<pc, cmpOutcome, freightApiRates, response>>
    [] answer.kind = "done" -> Settle("done", answer.rates)
    [] answer.kind = "error" -> Settle("pollFailed", NullRates)

\* a tick of the interval before the deadline: a GET is sent, and an answer
\* to a GET in flight arrives before the next tick or none does
Poll ==
  /\ Armed /\ ~IntervalCleared
  /\ elapsed + PollIntervalMs < TimeoutMs
  /\ elapsed' = elapsed + PollIntervalMs
  /\ polls' = polls + 1
  /\ \E answer \in PollAnswers : Answered(answer)
  /\ UNCHANGED <<config, stores, peer, historyResponse, entry, req, controllerLocals,
                 serviceLocals>>

\* what a GET answered late may bring
LateAnswers ==
  { a \in PollAnswers : a.kind = "done" => a.rates = Rates(<< Quote(1, 1999) >>) }

\* the answer to a GET that was still in flight when the wait settled; the
\* GETs in flight are not counted
PollResponse ==
  /\ Armed /\ IntervalCleared /\ polls > 0
  /\ \E answer \in LateAnswers : Answered(answer)
  /\ UNCHANGED <<elapsed, polls>>
  /\ UNCHANGED <<config, stores, peer, historyResponse, entry, req, controllerLocals,
                 serviceLocals>>

\* a deadline that rejects nothing: the wait goes on
TimeoutKeepsWaiting ==
  /\ pc = "poll" /\ elapsed + PollIntervalMs >= TimeoutMs /\ elapsed < TimeoutMs
  /\ elapsed' = TimeoutMs
  /\ polls' = polls + 1
  /\ UNCHANGED <<pc, cmpOutcome, freightApiRates, response>>
  /\ UNCHANGED <<config, stores, peer, historyResponse, entry, req, controllerLocals,
                 serviceLocals>>

\* the timeout fires, 30 s after it was set whether or not the wait has
\* settled: clearInterval(timer); reject(new Error('Timeout waiting for
\* freight rates')). While the interval runs, its tick of the same instant
\* runs before or after it; its GET is answered after the rejection either
\* way. elapsed stays the time the wait took once the wait has settled
Timeout ==
  /\ Armed /\ cmpOutcome # "timeout"
  /\ IntervalCleared \/ elapsed + PollIntervalMs >= TimeoutMs
  /\ elapsed' = IF IntervalCleared THEN elapsed ELSE TimeoutMs
  /\ \E tickFirst \in BOOLEAN :
       polls' = IF tickFirst /\ ~IntervalCleared THEN polls + 1 ELSE polls
  /\ Settle("timeout", NullRates)
  /\ UNCHANGED <<config, stores, peer, historyResponse, entry, req, controllerLocals,
                 serviceLocals>>

----------------------------------------------------------------------------
(* GET /freight-rates/history *)

\* sort: { createdAt: 'desc' }
RECURSIVE SortDesc(_)
SortDesc(records) ==
  IF records = <<>> THEN <<>>
  ELSE LET i == CHOOSE i \in 1..Len(records) :
                  \A j \in 1..Len(records) : records[j].createdAt <= records[i].createdAt
       IN  <<records[i]>> \o
           SortDesc(SubSeq(records, 1, i - 1) \o SubSeq(records, i + 1, Len(records)))

\* limit: n
Take(records, n) ==
  IF Len(records) <= n THEN records ELSE SubSeq(records, 1, n)

\* history(ctx), asked after a calculation of the same deployment
History ==
  /\ pc = "done" /\ entry = "calculate" /\ variant = "estimate"
  /\ historyResponse = NoHistory
  /\ \E dbOk \in BOOLEAN :
       historyResponse' =
         IF dbOk
         THEN [status |-> 200, data |-> Take(SortDesc(freightRates), HistoryLimit)]
         ELSE [status |-> 500, data |-> <<>>]
  /\ UNCHANGED <<config, stores, peer, comparatorLocals, pc, entry, req, controllerLocals,
                 serviceLocals, response>>

----------------------------------------------------------------------------

Next ==
  \/ RequestCalculate
  \/ RequestCalculateRate
  \/ RequestCalculateDensity
  \/ EstimateDistance
  \/ Validate
  \/ UseWarehouseEstimate
  \/ UseWarehouseRouting
  \/ SelectWarehouseEstimate
  \/ SelectWarehouseRouting
  \/ RateCheckInput
  \/ CalculateDensity
  \/ MapDensityToFreightClass
  \/ FindDistanceClass
  \/ GetApplicableRates
  \/ Price
  \/ Respond
  \/ GetFreightComRates
  \/ Poll
  \/ PollResponse
  \/ Timeout
  \/ History

Spec == Init /\ [][Next]_vars

----------------------------------------------------------------------------
(* A second calculateRate call, made while the first request is in flight *)

\* everything but the second call's locals
first == <<config, stores, comparatorLocals, historyResponse, pc, entry, req,
           controllerLocals, serviceLocals, response>>

\* the stages of calculateRate
ServiceStages == { "rate", "density", "freightClass", "distanceClass", "rates", "price" }

\* the input of a call that differs from the first request's
OtherItems == << Item(45360, 300, 300, 300, 1) >>
OtherDistanceMetres == 945 * MetresPerKm

\* a density kept in a field of the service, which every call writes and reads
DensityOfService(own) == density

\* const density = await this.calculateDensity(input.items): a local
DensityOfCall(own) == own

PeerThrow(message) ==
  peer' = [peer EXCEPT !.result = Threw(message), !.pc = "done"]

\* another caller invokes calculateRate, with the input of the first
\* request's call or with another
PeerRequest ==
  /\ peer.pc = "idle"
  /\ pc # "idle" /\ entry \in { "calculate", "calculateRate" }
  /\ \E same \in BOOLEAN :
       /\ same => (pc \in ServiceStages \/ svcResult.kind # "none")
       /\ peer' =
            IF same
            THEN [NoPeer EXCEPT !.pc = "rate",
                                !.itemsKind = req.itemsKind,
                                !.items = req.items,
                                !.distanceGiven = (entry = "calculate" \/ req.distanceGiven),
                                !.distance = distance]
            ELSE [NoPeer EXCEPT !.pc = "rate",
                                !.itemsKind = "array",
                                !.items = OtherItems,
                                !.distanceGiven = TRUE,
                                !.distance = OtherDistanceMetres]
  /\ UNCHANGED first

\* calculateRate, its argument checks
PeerCheckInput ==
  /\ peer.pc = "rate"
  /\ IF peer.itemsKind # "array" \/ Len(peer.items) = 0
     THEN PeerThrow(Msg("", "No items provided for rate calculation", 0, ""))
     ELSE IF ~peer.distanceGiven \/ peer.distance < 0
     THEN PeerThrow(Msg("", "Distance is required and must be a positive number", 0, ""))
     ELSE peer' = [peer EXCEPT !.pc = "density"]
  /\ UNCHANGED first

\* calculateDensity(input.items)
PeerDensity ==
  /\ peer.pc = "density"
  /\ LET outcome == calculateDensity(peer.items)
     IN  IF ~outcome.ok
         THEN PeerThrow(Msg("", outcome.error, 0, ""))
         ELSE peer' = [peer EXCEPT !.density = outcome.value, !.pc = "freightClass"]
  /\ UNCHANGED first

\* mapDensityToFreightClass(density)
PeerFreightClass ==
  /\ peer.pc = "freightClass"
  /\ LET d == DensityOfCall(peer.density)
         results == FindFreightClasses(d)
     IN  IF Len(results) = 0
         THEN PeerThrow(Msg("", "No freight class found for density", d, ""))
         ELSE peer' = [peer EXCEPT !.freightClassRecord = results[1],
                                   !.pc = "distanceClass"]
  /\ UNCHANGED first

\* findDistanceClass(distance)
PeerDistanceClass ==
  /\ peer.pc = "distanceClass"
  /\ LET results == FindDistanceClasses(peer.distance)
     IN  IF Len(results) = 0
         THEN PeerThrow(Msg("", "No distance class found for distance",
                            peer.distance, "km"))
         ELSE peer' = [peer EXCEPT !.distanceClass = results[1], !.pc = "rates"]
  /\ UNCHANGED first

\* getApplicableRates(...) and the check of its result
PeerRates ==
  /\ peer.pc = "rates"
  /\ LET rates == getApplicableRates(peer.freightClassRecord.id, peer.distanceClass.id)
     IN  IF Len(rates) = 0
         THEN PeerThrow(Msg("", "No rates found for freight class and distance class",
                            peer.freightClassRecord.freightClass,
                            peer.distanceClass.distanceClass))
         ELSE peer' = [peer EXCEPT !.applicableRates = rates, !.pc = "price"]
  /\ UNCHANGED first

\* calculateRate, from the selection of the rate to the return
PeerPrice ==
  /\ peer.pc = "price"
  /\ peer' = [peer EXCEPT
       !.result = Returned(
          [density |-> peer.density,
           freightClass |-> peer.freightClassRecord.freightClass,
           applicableRates |-> Projection(peer.applicableRates),
           lowestRate |-> FinalPrice(SelectRate(peer.applicableRates), peer.items),
           distance |-> peer.distance]),
       !.pc = "done"]
  /\ UNCHANGED first

\* a hash-estimate deployment with nothing stored
ConcurrentInit ==
  /\ Init
  /\ variant = "estimate"
  /\ freightRates = <<>>

ConcurrentNext ==
  \/ RequestCalculate
  \/ RequestCalculateRate
  \/ Validate
  \/ UseWarehouseEstimate
  \/ SelectWarehouseEstimate
  \/ RateCheckInput
  \/ CalculateDensity
  \/ MapDensityToFreightClass
  \/ FindDistanceClass
  \/ GetApplicableRates
  \/ Price
  \/ Respond
  \/ PeerRequest
  \/ PeerCheckInput
  \/ PeerDensity
  \/ PeerFreightClass
  \/ PeerDistanceClass
  \/ PeerRates
  \/ PeerPrice

\* two calculateRate calls in flight at once, their steps interleaved
ConcurrentSpec == ConcurrentInit /\ [][ConcurrentNext]_vars

\* The wait does not read how the distance was measured: the deployments
\* without GOOGLE_API_KEY are taken, where every distance is the default
FairInit == Init /\ googleKey = FALSE

\* the timers of getFreightComRates fire: a pending interval tick and the
\* pending timeout are run by the event loop
FairSpec == FairInit /\ [][Next]_vars /\ WF_vars(Poll) /\ WF_vars(Timeout)

----------------------------------------------------------------------------
(* Properties.  The quantities the statements speak of are defined here    *)
(* from the items themselves, apart from the operators of the model.       *)

RECURSIVE SumTo(_, _)
SumTo(f, n) == IF n = 0 THEN 0 ELSE f[n] + SumTo(f, n - 1)

\* sum over the items of weight * quantity, grams
GramsOf(items) ==
  SumTo([i \in 1..Len(items) |-> items[i].weight * items[i].quantity], Len(items))

\* sum over the items of length * width * height * quantity, mm3
CubicMmOf(items) ==
  SumTo([i \in 1..Len(items) |->
           items[i].length * items[i].width * items[i].height * items[i].quantity],
        Len(items))

\* ceil(lbs / 100) for lbs = grams / 453.592: the n with
\* (n - 1) * 45359.2 < grams <= n * 45359.2
CeilUnits(grams) ==
  CHOOSE n \in 0..(grams \div 45359 + 1) :
    /\ 10 * grams <= n * 453592
    /\ n > 0 => 10 * grams > (n - 1) * 453592

RateReturned ==
  entry \in { "calculate", "calculateRate" } /\ svcResult.kind = "returned"

\* C1: whenever calculateRate returns, lowestRate is
\* floor(pricePer100lbs of the selected rate * ceil(totalWeightLbs / 100) * 1.15)
\* in exact arithmetic, totalWeightLbs the sum of weight * quantity / 453.592
C1_LowestRateIsExactMarkup ==
  RateReturned =>
    svcResult.data.lowestRate =
      (applicableRates[1].pricePer100lbs * CeilUnits(GramsOf(req.items)) * 115) \div 100

\* the examples of C1 that the code does meet: a weight just above 100 lb
\* is 2 units, and 4500 cents at 2 units is 10350
C1_ExamplesHold ==
  /\ (RateReturned /\ GramsOf(req.items) = 45360)
       => svcResult.data.lowestRate = MulMarkup(2 * applicableRates[1].pricePer100lbs)
  /\ (RateReturned /\ CeilUnits(GramsOf(req.items)) = 2
         /\ applicableRates[1].pricePer100lbs = 4500)
       => svcResult.data.lowestRate = 10350

----------------------------------------------------------------------------

\* d hundredths is (grams / 453.592) / (mm3 / 16387.064) rounded to two
\* decimals: d - 1/2 <= 100 * ratio < d + 1/2
RoundsTo(d, grams, mm3) ==
  LET twiceNum == BigProd3(2 * grams, 16387064, 100)
      den == BigProd3(mm3, 453592, 1)
  IN  /\ d >= 0
      /\ d > 0 => BigCmp(BigMul(den, BigOf(2 * d - 1)), twiceNum) <= 0
      /\ BigCmp(twiceNum, BigMul(den, BigOf(2 * d + 1))) < 0

InvalidDimensions == "Invalid item dimensions: volume cannot be zero"

\* C2: for a non-empty item list calculateDensity returns
\* (sum of weight*quantity/453.592) / (sum of length*width*height*quantity/16387.064)
\* rounded to 2 decimals, and it leaves the items as they were
C2_DensityIsRoundedRatio ==
  /\ [](density # -1 =>
          /\ CubicMmOf(req.items) > 0
          /\ RoundsTo(density, GramsOf(req.items), CubicMmOf(req.items))
          /\ (entry = "calculateDensity" /\ pc = "done")
               => svcResult = Returned([NoData EXCEPT !.density = density]))
  /\ [][pc = "density" => req' = req]_vars

C2_Witness ==
  /\ entry = "calculateDensity" /\ pc = "done"
  /\ svcResult.kind = "returned" /\ svcResult.data.density = 4
  /\ Len(req.items) = 2
  /\ req.items[1].quantity # req.items[2].quantity

AllPositive(items) ==
  \A i \in 1..Len(items) :
    /\ items[i].weight > 0 /\ items[i].length > 0 /\ items[i].width > 0
    /\ items[i].height > 0 /\ items[i].quantity > 0

\* C3 as stated: with every item positive in weight, dimensions and
\* quantity, the rounded density is strictly positive
C3_DensityStrictlyPositive ==
  (density # -1 /\ AllPositive(req.items)) => density > 0

\* twice the unrounded ratio in hundredths against 1: the sign of
\* ratio - 0.005 lb/in3
HalfHundredthCmp(list) ==
  BigCmp(BigProd3(2 * GramsOf(list), 16387064, 100),
         BigProd3(CubicMmOf(list), 453592, 1))

\* C3 amended: with every item positive, calculateDensity does not fail,
\* the rounded density is never negative, it is strictly positive when the
\* unrounded ratio is above 0.005 lb/in3 and 0 when it is below
C3_DensityPositiveFromHalfHundredth ==
  (req.itemsKind = "array" /\ Len(req.items) > 0 /\ AllPositive(req.items))
  => /\ svcResult.message.text # InvalidDimensions
     /\ density # -1 =>
          /\ density >= 0
          /\ HalfHundredthCmp(req.items) > 0 => density > 0
          /\ HalfHundredthCmp(req.items) < 0 => density = 0

C3_Witness ==
  /\ entry = "calculateDensity" /\ pc = "done"
  /\ Len(req.items) > 0 /\ AllPositive(req.items)
  /\ svcResult.kind = "returned" /\ svcResult.data.density = 0

\* the item sets C4 speaks of: the empty list, or a list in which some
\* dimension is zero
ZeroDimensionSet(items) ==
  \/ Len(items) = 0
  \/ \E i \in 1..Len(items) :
       items[i].length = 0 \/ items[i].width = 0 \/ items[i].height = 0

\* the error the caller of the entry point is given
ErrorText == IF entry = "calculate" THEN response.message.text
             ELSE svcResult.message.text

----------------------------------------------------------------------------

\* mapDensityToFreightClass has run for the density of this call
PastFreightLookup ==
  /\ entry # "calculateDensity" /\ density # -1
  /\ pc \in { "distanceClass", "rates", "price", "respond", "done" }

\* findDistanceClass has run for the distance of this call
PastDistanceLookup ==
  /\ freightClassRecord # NoFreightClass
  /\ pc \in { "rates", "price", "respond", "done" }

\* C5: both lookups are inclusive at both ends of a range: a density or a
\* distance equal to the min or to the max of a class record finds that record
C5_RangeBoundsInclusive ==
  /\ PastFreightLookup =>
       \A i \in 1..Len(freightClasses) :
         density \in { freightClasses[i].minDensity, freightClasses[i].maxDensity }
           => freightClassRecord = freightClasses[i]
  /\ PastDistanceLookup =>
       \A i \in 1..Len(distanceClasses) :
         distance \in { distanceClasses[i].minDistance, distanceClasses[i].maxDistance }
           => distanceClass = distanceClasses[i]

C5_Witness ==
  /\ PastDistanceLookup /\ svcResult.kind = "returned"
  /\ density = freightClassRecord.maxDensity
  /\ density # freightClassRecord.minDensity
  /\ distance = distanceClass.minDistance
  /\ distance > 0

\* C6: a density or a distance that no range covers makes calculateRate
\* throw the not-found error naming that value; no price is returned and
\* the price table is not read
C6_UncoveredValueAborts ==
  /\ (PastFreightLookup /\
        \A i \in 1..Len(freightClasses) :
          density < freightClasses[i].minDensity \/ density > freightClasses[i].maxDensity)
     => /\ svcResult = Threw(Msg("", "No freight class found for density", density, ""))
        /\ priceTableReads = 0
        /\ (entry = "calculate" /\ pc = "done")
             => /\ response.status = 500
                /\ response.data = NoData
                /\ response.message.arg = density
  /\ (PastDistanceLookup /\
        \A i \in 1..Len(distanceClasses) :
          distance < distanceClasses[i].minDistance \/ distance > distanceClasses[i].maxDistance)
     => /\ svcResult = Threw(Msg("", "No distance class found for distance", distance, "km"))
        /\ priceTableReads = 0
        /\ (entry = "calculate" /\ pc = "done")
             => /\ response.status = 500
                /\ response.data = NoData
                /\ response.message.arg = distance

C6_Witness ==
  /\ entry = "calculate" /\ pc = "done"
  /\ svcResult.message.text = "No distance class found for distance"
  /\ svcResult.message.arg = 500500
  /\ response.status = 500

\* C7: auto-selection takes a warehouse at minimal computed distance, the
\* first such warehouse in enumeration order, in the hash-estimate scan and
\* in the external-routing reduce
C7_ClosestWarehouseFirstWins ==
  originPath = "auto" =>
    /\ Len(warehouseDistances) = Len(warehouses)
    /\ \A j \in 1..Len(warehouses) :
         /\ warehouseDistances[j].warehouse = warehouses[j]
         /\ variant = "estimate" =>
              warehouseDistances[j].distance =
                1000 * estimatePostalCodeDistance(warehouses[j].zipcode,
                                                  req.destinationPostalCode)
    /\ distance # Infinity
    /\ \E i \in 1..Len(warehouses) :
         /\ warehouses[i].id = selectedWarehouseId
         /\ warehouses[i].zipcode = warehousePostalCode
         /\ warehouseDistances[i].distance = distance
         /\ \A j \in 1..Len(warehouses) :
              \/ warehouseDistances[j].distance = Infinity
              \/ warehouseDistances[j].distance >= distance
         /\ \A j \in 1..(i - 1) : warehouseDistances[j].distance # distance

C7_Witness ==
  /\ variant = "routing" /\ originPath = "auto"
  /\ Len(warehouses) = 3
  /\ warehouseDistances[1].distance = Infinity
  /\ warehouseDistances[2].distance = distance
  /\ warehouseDistances[3].distance = distance
  /\ selectedWarehouseId = warehouses[2].id

NoOriginText == "No warehouses found and originPostalCode not provided"

\* C8: with no warehouseId and an empty warehouse list, calculate takes the
\* body's originPostalCode as the origin when there is one, and otherwise
\* answers the no-origin error without invoking calculateRate
C8_EmptyListFallsBackToOrigin ==
  (entry = "calculate" /\ req.warehouseId = 0 /\ warehouseLookup = "empty")
  => /\ selectedWarehouseId = 0
     /\ req.originPostalCode # NoCode =>
          /\ warehousePostalCode = req.originPostalCode
          /\ response.message.text # NoOriginText
          /\ response.status = 200 =>
               /\ response.originPostalCode = req.originPostalCode
               /\ response.selectedWarehouseId = 0
     /\ req.originPostalCode = NoCode =>
          /\ pc = "done"
          /\ response = ErrorResponse(400, Msg("", NoOriginText, 0, ""))
          /\ rateCalls = 0

C8_Witness ==
  /\ entry = "calculate" /\ warehouseLookup = "empty" /\ pc = "done"
  /\ response.status = 200
  /\ response.originPostalCode = PostalM5V

NoRatesText == "No rates found for freight class and distance class"

\* C10: when no price-table entry matches the freight class and the
\* distance class, getApplicableRates yields the empty list and calculateRate
\* then throws the no-applicable-rate error and returns no price
C10_NoMatchingRateIsError ==
  (/\ priceTableReads > 0
   /\ ~\E i \in 1..Len(priceTable) :
         /\ priceTable[i].freightClass = freightClassRecord.id
         /\ priceTable[i].distanceClass = distanceClass.id)
  => /\ applicableRates = <<>>
     /\ svcResult = Threw(Msg("", NoRatesText, freightClassRecord.freightClass,
                              distanceClass.distanceClass))
     /\ (entry = "calculate" /\ pc = "done")
          => /\ response.status = 500
             /\ response.data = NoData

C10_Witness ==
  /\ entry = "calculate" /\ pc = "done"
  /\ priceTableReads = 1 /\ applicableRates = <<>>
  /\ svcResult.message.text = NoRatesText
  /\ response.status = 500

----------------------------------------------------------------------------

\* the entries of the price table for the classes found, in store order
MatchingRates ==
  SelectSeq(priceTable,
            LAMBDA r : /\ r.freightClass = freightClassRecord.id
                       /\ r.distanceClass = distanceClass.id)

\* C11: the final price is computed from the first entry the rate lookup
\* returned, whatever the later entries cost, and applicableRates in the
\* result lists every returned entry in the order of the store
C11_FirstReturnedRatePrices ==
  RateReturned =>
    /\ svcResult.data.lowestRate =
         MulMarkup(MatchingRates[1].pricePer100lbs * CeilUnits(GramsOf(req.items)))
    /\ Len(svcResult.data.applicableRates) = Len(MatchingRates)
    /\ \A i \in 1..Len(MatchingRates) :
         /\ svcResult.data.applicableRates[i].id = MatchingRates[i].id
         /\ svcResult.data.applicableRates[i].pricePer100lbs =
              MatchingRates[i].pricePer100lbs

C11_Witness ==
  /\ RateReturned
  /\ Len(svcResult.data.applicableRates) = 2
  /\ svcResult.data.applicableRates[1].pricePer100lbs >
       svcResult.data.applicableRates[2].pricePer100lbs
  /\ svcResult.data.lowestRate > svcResult.data.applicableRates[1].pricePer100lbs

\* (sum of the code units of origin followed by destination) % 4900 + 100
HashKm(origin, destination) ==
  LET str == origin \o destination
  IN  (SumTo(str, Len(str)) % 4900) + 100

\* null prints as "null"
Printed(postal) == IF postal = NullZip THEN <<110, 117, 108, 108>> ELSE postal

InEstimateRange(metres) == 100 * 1000 <= metres /\ metres <= 5000 * 1000

\* C12: the estimated distance is a function of the (origin, destination)
\* pair alone, lies in [100, 5000] km, and computing it changes nothing else
C12_EstimateIsPureAndBounded ==
  /\ [](/\ (entry = "estimateDistance" /\ pc = "done")
            => /\ svcResult.kind = "returned"
               /\ svcResult.data.distance =
                    1000 * HashKm(Printed(req.originPostalCode),
                                  Printed(req.destinationPostalCode))
               /\ InEstimateRange(svcResult.data.distance)
        /\ variant = "estimate"
            => \A j \in 1..Len(warehouseDistances) :
                 /\ warehouseDistances[j].distance =
                      1000 * HashKm(Printed(warehouseDistances[j].warehouse.zipcode),
                                    Printed(req.destinationPostalCode))
                 /\ InEstimateRange(warehouseDistances[j].distance)
        /\ (variant = "estimate" /\ originPath = "explicit")
            => /\ distance = 1000 * HashKm(Printed(warehousePostalCode),
                                           Printed(req.destinationPostalCode))
               /\ InEstimateRange(distance))
  /\ [][entry' = "estimateDistance" =>
          UNCHANGED <<config, stores, peer, comparatorLocals, historyResponse, controllerLocals, density, freightClassRecord,
                      distanceClass, applicableRates, rateCalls, priceTableReads,
                      response>>]_vars

C12_Witness ==
  /\ entry = "estimateDistance" /\ pc = "done"
  /\ req.originPostalCode = CodeSum4900
  /\ svcResult.data.distance = 100 * 1000

----------------------------------------------------------------------------

DefaultMetres == 500 * 1000

\* C15: with no GOOGLE_API_KEY the routing answers 500 km for every pair
\* and sends nothing to the provider, and no request fails for want of a
\* distance: a warehouse that is found is used, a warehouse list gives a
\* closest warehouse, and calculateRate is invoked with 500 km
C15_NoKeyUsesDefaultDistance ==
  (variant = "routing" /\ ~googleKey /\ entry = "calculate")
  => /\ routeCalls = <<>> /\ routeFailures = 0
     /\ \A j \in 1..Len(warehouseDistances) :
          warehouseDistances[j].distance = DefaultMetres
     /\ originPath \in { "explicit", "auto", "emptyFallback", "errorFallback" }
          => distance = DefaultMetres
     /\ warehouseLookup = "found" => originPath = "explicit"
     /\ warehouseLookup = "list" => originPath = "auto"
     /\ (warehouseLookup = "empty" /\ req.originPostalCode # NoCode)
          => originPath = "emptyFallback"
     /\ response.message.text \notin
          { "Failed to calculate shipping distance",
            "Could not calculate distance to any warehouse" }
     /\ (pc = "done" /\ warehousePostalCode \notin { NoCode, NullZip }
         /\ originPath \in { "explicit", "auto", "emptyFallback", "errorFallback" })
          => /\ rateCalls = 1
             /\ response.status \in { 200, 500 }
             /\ response.status = 200 => response.data.distance = DefaultMetres
             /\ response.status = 500 =>
                  response.message.prefix = "Rate calculation failed: "

C15_Witness ==
  /\ variant = "routing" /\ ~googleKey /\ pc = "done"
  /\ originPath = "auto" /\ Len(warehouses) = 3
  /\ response.status = 200
  /\ response.data.distance = DefaultMetres
  /\ response.data.lowestRate > 0

\* the pair the request depends on was refused by the provider: the
\* warehouse named, the origin of the body when there is no warehouse, or
\* every warehouse of the list and then the origin if there is one
DependedRouteFailed ==
  \/ warehouseLookup = "found" /\ routeFailures > 0
  \/ warehouseLookup = "empty" /\ originPath = "fallbackFailed"
  \/ /\ warehouseLookup = "list"
     /\ \A j \in 1..Len(warehouseDistances) : warehouseDistances[j].distance = Infinity
     /\ originPath \in { "fallbackFailed", "errorNoOrigin" }

\* C16: with external routing and its key configured, a non-success answer
\* of the provider for the pair the request depends on fails the request
\* with an external-service error (a 500 about the distance or the
\* location), with no price, and not with an error of another kind
C16_RoutingFailureIsExternalError ==
  (/\ variant = "routing" /\ googleKey /\ entry = "calculate" /\ pc = "done"
   /\ DependedRouteFailed)
  => /\ response.status = 500
     /\ response.message.text \in
          { "Failed to calculate shipping distance",
            "Failed to determine warehouse location" }
     /\ response.data = NoData
     /\ rateCalls = 0

\* the bodies C18 speaks of; a field an item lacks is held as 0
InvalidBody ==
  \/ req.itemsKind # "array"
  \/ Len(req.items) = 0
  \/ req.destinationPostalCode = NoCode
  \/ \E i \in 1..Len(req.items) :
       \/ req.items[i].weight = 0 \/ req.items[i].length = 0
       \/ req.items[i].width = 0 \/ req.items[i].height = 0
       \/ req.items[i].quantity = 0

ValidationTexts ==
  { "Items array is required and must not be empty",
    "Destination postal code is required",
    "Each item must have weight, length, width, height, and quantity" }

\* C18: a calculate request with an invalid body is answered 400 with a
\* validation message before any warehouse, freight-class, distance-class
\* or price-table read, and calculateRate is never invoked for it
C18_InvalidBodyRejectedFirst ==
  (entry = "calculate" /\ InvalidBody)
  => /\ pc \in { "validate", "done" }
     /\ pc = "done" =>
          /\ response.status = 400
          /\ response.message.text \in ValidationTexts
          /\ response.data = NoData
     /\ warehouseLookup = "none" /\ warehouseDistances = <<>>
     /\ routeCalls = <<>>
     /\ density = -1
     /\ freightClassRecord = NoFreightClass
     /\ distanceClass = NoDistanceClass
     /\ priceTableReads = 0
     /\ rateCalls = 0
     /\ svcResult = NoSvcResult

C18_Witness ==
  /\ entry = "calculate" /\ pc = "done"
  /\ req.itemsKind = "array" /\ Len(req.items) = 2
  /\ req.destinationPostalCode # NoCode
  /\ req.items[2].length = 0 /\ req.items[1].length # 0
  /\ response.status = 400
  /\ Len(warehouses) = 3

----------------------------------------------------------------------------

ComparatorFailures == { "noKey", "submitFailed", "pollFailed", "timeout" }

\* the response carries the whole internal calculation
CarriesInternalCalculation ==
  /\ response.status = 200
  /\ response.data = svcResult.data
  /\ response.data.density >= 0
  /\ response.data.lowestRate >= 0
  /\ response.data.distance >= 0
  /\ Len(response.data.applicableRates) > 0
  /\ response.selectedWarehouseId = selectedWarehouseId
  /\ response.originPostalCode = warehousePostalCode

\* C13: whenever the quote comparison fails (no key, failed submit, failed
\* poll, timeout) getFreightComRates yields null and the response carries
\* the whole internal calculation with freightApiRates and comparison null;
\* a request that reached the comparator never fails
C13_ComparatorFailureDegrades ==
  /\ cmpOutcome \in ComparatorFailures
       => /\ freightApiRates = NullRates
          /\ pc = "done"
          /\ CarriesInternalCalculation
          /\ response.freightApiRates = NullRates
          /\ response.comparison.isNull
  /\ (pc = "poll" \/ cmpOutcome # "") => response.status \in { 0, 200 }

C13_Witness ==
  /\ cmpOutcome = "pollFailed" /\ polls = 3
  /\ pc = "done" /\ response.status = 200
  /\ response.comparison.isNull

\* C14: while the provider does not report completion the comparator polls
\* once per second and has not waited 30 s; at the deadline the wait ends
\* with no comparison and a 200 response; every wait ends
C14_WaitEndsAtDeadline ==
  /\ [](/\ pc = "poll" => elapsed < 30000 /\ elapsed = 1000 * polls
        /\ cmpOutcome = "timeout"
             => /\ elapsed = 30000
                /\ polls \in { 29, 30 }
                /\ freightApiRates = NullRates
                /\ response.status = 200
                /\ response.freightApiRates = NullRates
                /\ response.comparison.isNull)
  /\ [][(pc = "poll" /\ elapsed >= 29000) => pc' = "done"]_vars
  /\ (pc = "poll" ~> pc = "done")

C14_Witness ==
  /\ cmpOutcome = "timeout" /\ polls = 29 /\ elapsed = 30000
  /\ pc = "done" /\ response.status = 200

LeastTotal(list) ==
  CHOOSE t \in { list[i].total : i \in 1..Len(list) } :
    \A i \in 1..Len(list) : t <= list[i].total

\* C19: with at least one quote the comparison reports the internal final
\* price and the least quote total in integer cents; with no quotes (null
\* or an empty list) the comparison is null
C19_ComparisonInIntegerCents ==
  (variant = "routing" /\ response.status = 200)
  => /\ (~freightApiRates.isNull /\ Len(freightApiRates.list) > 0)
          => /\ ~response.comparison.isNull
             /\ response.comparison.internalPrice = svcResult.data.lowestRate
             /\ response.comparison.freightApiLowestPrice.cents =
                  LeastTotal(freightApiRates.list)
             /\ response.comparison.freightApiLowestPrice.ulps = 0
     /\ (freightApiRates.isNull \/ Len(freightApiRates.list) = 0)
          => response.comparison.isNull

\* C20 as stated: the internal result is the same whatever the comparator
\* does, and it has been delivered while the comparator submits and polls
C20_DeliveryDoesNotWait ==
  /\ (variant = "routing" /\ response.status = 200)
       => response.data = svcResult.data
  /\ pc = "poll" => response.status = 200

\* C20 amended: the comparator never alters the internal calculation, which
\* is complete before the comparator starts and is delivered unchanged; the
\* response is sent only once the comparator has returned
C20_ComparatorNeverAltersResult ==
  /\ [](/\ (variant = "routing" /\ response.status = 200)
             => /\ CarriesInternalCalculation
                /\ cmpOutcome # ""
        /\ pc = "poll"
             => /\ svcResult.kind = "returned"
                /\ response = NoResponse
                /\ cmpOutcome = "")
  /\ [][(variant = "routing" /\ pc \in { "respond", "poll" })
        => UNCHANGED <<config, stores, peer, entry, req, controllerLocals,
                       serviceLocals>>]_vars

C20_Witness ==
  /\ pc = "poll" /\ polls = 5
  /\ svcResult.kind = "returned" /\ svcResult.data.lowestRate > 0
  /\ response = NoResponse

----------------------------------------------------------------------------

\* C21: within one request no routing query is sent twice: no origin
\* occurs twice among the queries sent for the request's destination
C21_NoRoutingQueryReissued ==
  \A i, j \in 1..Len(routeCalls) : i # j => routeCalls[i] # routeCalls[j]

----------------------------------------------------------------------------

\* the origin of the request has been resolved
OriginResolved ==
  /\ TruthyCode(warehousePostalCode)
  /\ originPath \in { "explicit", "auto", "emptyFallback", "errorFallback" }
  /\ warehouseLookup # "none"

StageRank(stage) ==
  CASE stage = "validate" -> 0
    [] stage = "origin" -> 1
    [] stage = "rate" -> 2
    [] stage = "density" -> 3
    [] stage = "freightClass" -> 4
    [] stage = "distanceClass" -> 5
    [] stage = "rates" -> 6
    [] stage = "price" -> 7
    [] OTHER -> 8

----------------------------------------------------------------------------

\* C25: in the hash-estimate controller calculateRate is called with the
\* hash estimate for the effective origin and the destination, which lies
\* in 100..4999 km, whichever way the origin was found
C25_RateGetsHashEstimate ==
  (variant = "estimate" /\ entry = "calculate" /\ rateCalls > 0)
  => /\ distance = 1000 * HashKm(Printed(warehousePostalCode),
                                 Printed(req.destinationPostalCode))
     /\ 100 * 1000 <= distance /\ distance <= 4999 * 1000

----------------------------------------------------------------------------

\* the entries of the Promise.all result whose query failed
FailedQueries ==
  { i \in 1..Len(warehouseDistances) : warehouseDistances[i].distance = Infinity }

\* the failures of the queries sent for the warehouses
WarehouseQueryFailures ==
  routeFailures - (IF originPath = "fallbackFailed" THEN 1 ELSE 0)

\* C28: in external-routing auto-selection the selected warehouse is one
\* whose query succeeded, with the distance that query returned; when every
\* query failed no warehouse is selected and the request falls back to
\* originPostalCode or fails
C28_FailedWarehouseNeverSelected ==
  (variant = "routing" /\ entry = "calculate" /\ warehouseLookup = "list")
  => /\ Cardinality(FailedQueries) = WarehouseQueryFailures
     /\ selectedWarehouseId # 0
          => /\ originPath = "auto"
             /\ \E i \in 1..Len(warehouseDistances) :
                  /\ i \notin FailedQueries
                  /\ warehouseDistances[i].warehouse.id = selectedWarehouseId
                  /\ warehouseDistances[i].distance = distance
                  /\ warehouseDistances[i].warehouse.zipcode = warehousePostalCode
     /\ Cardinality(FailedQueries) = Len(warehouseDistances)
          => /\ selectedWarehouseId = 0
             /\ originPath \in { "errorFallback", "fallbackFailed", "errorNoOrigin" }
             /\ originPath = "errorFallback"
                  => warehousePostalCode = req.originPostalCode
             /\ originPath # "errorFallback"
                  => response.status = 500 /\ rateCalls = 0

C28_Witness ==
  /\ variant = "routing" /\ entry = "calculate" /\ originPath = "auto"
  /\ Len(warehouseDistances) = 3
  /\ FailedQueries = { 1, 3 }
  /\ selectedWarehouseId = warehouseDistances[2].warehouse.id
  /\ response.status = 200

----------------------------------------------------------------------------

\* the warehouses of the store with the given id
StoredWithId(id) ==
  { i \in 1..Len(warehouses) : warehouses[i].id = id }

\* C29: a successful calculate response has a non-empty originPostalCode;
\* its selectedWarehouseId names a stored warehouse with that postal code,
\* or is null with originPostalCode the request's own; a requested
\* warehouseId is the selected one
C29_ResponseOriginIsConsistent ==
  (entry = "calculate" /\ response.status = 200)
  => /\ TruthyCode(response.originPostalCode)
     /\ \/ /\ response.selectedWarehouseId # 0
           /\ \E i \in StoredWithId(response.selectedWarehouseId) :
                warehouses[i].zipcode = response.originPostalCode
        \/ /\ response.selectedWarehouseId = 0
           /\ response.originPostalCode = req.originPostalCode
     /\ req.warehouseId # 0 => response.selectedWarehouseId = req.warehouseId

C29_Witness ==
  /\ entry = "calculate" /\ response.status = 200
  /\ req.warehouseId = 0 /\ req.originPostalCode = PostalM5V
  /\ response.selectedWarehouseId = 1
  /\ response.originPostalCode = PostalH2K

----------------------------------------------------------------------------

\* a string read backwards
Reversed(str) == [i \in 1..Len(str) |-> str[Len(str) + 1 - i]]

\* two strings with the same characters, each as often
SameCharacters(a, b) ==
  /\ Len(a) = Len(b)
  /\ \A c \in { a[i] : i \in 1..Len(a) } \cup { b[i] : i \in 1..Len(b) } :
       Cardinality({ i \in 1..Len(a) : a[i] = c })
         = Cardinality({ i \in 1..Len(b) : b[i] = c })

\* C30: the hash estimate is the same with origin and destination
\* exchanged and with the characters of a postal code rearranged; two
\* warehouses whose postal codes have the same characters are equally far
\* from every destination
C30_EstimateIgnoresOrder ==
  /\ (entry = "estimateDistance" /\ pc = "done")
       => /\ svcResult.data.distance =
               MetresPerKm * estimateDistance(req.destinationPostalCode,
                                              req.originPostalCode)
          /\ svcResult.data.distance =
               MetresPerKm * estimatePostalCodeDistance(req.destinationPostalCode,
                                                        req.originPostalCode)
          /\ svcResult.data.distance =
               MetresPerKm * estimateDistance(Reversed(req.originPostalCode),
                                              Reversed(req.destinationPostalCode))
  /\ variant = "estimate"
       => \A i, j \in 1..Len(warehouseDistances) :
            SameCharacters(Printed(warehouseDistances[i].warehouse.zipcode),
                           Printed(warehouseDistances[j].warehouse.zipcode))
            => warehouseDistances[i].distance = warehouseDistances[j].distance

C30_Witness ==
  /\ variant = "estimate" /\ Len(warehouseDistances) = 3
  /\ warehouseDistances[1].warehouse.zipcode # warehouseDistances[2].warehouse.zipcode
  /\ SameCharacters(warehouseDistances[1].warehouse.zipcode,
                    warehouseDistances[2].warehouse.zipcode)
  /\ warehouseDistances[1].distance = warehouseDistances[2].distance
  /\ warehouseDistances[3].distance # warehouseDistances[1].distance

----------------------------------------------------------------------------

\* the first entry of the joined results with the least distance
FirstClosest ==
  CHOOSE i \in 1..Len(warehouseDistances) :
    /\ i \notin FailedQueries
    /\ \A j \in 1..Len(warehouseDistances) :
         j \in FailedQueries
         \/ warehouseDistances[j].distance > warehouseDistances[i].distance
         \/ (warehouseDistances[j].distance = warehouseDistances[i].distance /\ j >= i)

\* C23: in external-routing auto-selection every warehouse's query is sent
\* before any result is used, the results are joined in the order of the
\* warehouse list, and the selected warehouse and distance are those of
\* the first least entry of that list, in whatever order the queries
\* completed
C23_SelectionIgnoresCompletionOrder ==
  (variant = "routing" /\ entry = "calculate" /\ warehouseLookup = "list")
  => /\ Len(warehouseDistances) = Len(warehouses)
     /\ Len(settleOrder) = Len(warehouses)
     /\ \A i \in 1..Len(warehouses) :
          /\ warehouseDistances[i].warehouse = warehouses[i]
          /\ googleKey => routeCalls[i] = warehouses[i].zipcode
     /\ originPath = "auto"
          => /\ selectedWarehouseId = warehouseDistances[FirstClosest].warehouse.id
             /\ distance = warehouseDistances[FirstClosest].distance
             /\ warehousePostalCode = warehouseDistances[FirstClosest].warehouse.zipcode
     /\ originPath # "auto" => FailedQueries = 1..Len(warehouses)

C23_Witness ==
  /\ variant = "routing" /\ entry = "calculate" /\ originPath = "auto"
  /\ settleOrder = <<3, 2, 1>>
  /\ warehouseDistances[1].distance = warehouseDistances[3].distance
  /\ warehouseDistances[2].distance > warehouseDistances[1].distance
  /\ selectedWarehouseId = warehouseDistances[1].warehouse.id
  /\ response.status = 200

----------------------------------------------------------------------------

\* C26: the wait is decided by the first of a done answer (its rates), a
\* failed poll (no comparison) and the 30 s deadline (no comparison); once
\* decided, no later answer and no later deadline changes the outcome or
\* the response
C26_FirstEventDecidesWait ==
  /\ [][cmpOutcome # ""
        => UNCHANGED <<cmpOutcome, freightApiRates, response, pc>>]_vars
  /\ [][(pc = "poll" /\ cmpOutcome' # "")
        => /\ pc' = "done"
           /\ response'.status = 200
           /\ response'.freightApiRates = freightApiRates'
           /\ cmpOutcome' = "done"
                => elapsed' < 30000 /\ polls' >= 1
           /\ cmpOutcome' = "pollFailed"
                => elapsed' < 30000 /\ polls' >= 1 /\ freightApiRates' = NullRates
           /\ cmpOutcome' = "timeout"
                => elapsed' = 30000 /\ freightApiRates' = NullRates
           /\ cmpOutcome' \in { "done", "pollFailed", "timeout" }]_vars
  /\ []((pc = "poll") => cmpOutcome = "")

C26_Witness ==
  /\ cmpOutcome = "done" /\ polls = 2 /\ elapsed = 2000
  /\ ~freightApiRates.isNull /\ Len(freightApiRates.list) = 2
  /\ response.status = 200
  /\ response.freightApiRates = freightApiRates

\* C27: once the wait has settled no GET is started, and at most 30 are
\* started in all
C27_NoPollAfterSettle ==
  /\ [](/\ polls <= 30
        /\ cmpOutcome \in { "done", "pollFailed" } => polls <= 29
        /\ cmpOutcome \in { "", "noKey", "submitFailed" } /\ pc # "poll" => polls = 0)
  /\ [][cmpOutcome # "" => polls' = polls]_vars

C27_Witness ==
  /\ cmpOutcome = "timeout" /\ polls = 30 /\ elapsed = 30000
  /\ pc = "done"

----------------------------------------------------------------------------

\* the second call was given the input of the first request's call
SameInput ==
  /\ peer.itemsKind = req.itemsKind
  /\ peer.items = req.items
  /\ peer.distanceGiven = (entry = "calculate" \/ req.distanceGiven)
  /\ peer.distance = distance

====
